---------------------------- MODULE Spec2Model ----------------------------
(***************************************************************************)
(* Strapi Service Navigation: the definition provider of src/extension.js. *)
(*                                                                         *)
(* Text is modelled as TLA+ strings and every position is a 0-based        *)
(* JavaScript string index.  Each regular expression of the source is      *)
(* transcribed into an operator that computes the match the JavaScript     *)
(* engine computes (leftmost start, greedy quantifiers).                   *)
(***************************************************************************)
EXTENDS Integers, Sequences, FiniteSets, TLC

VARIABLES
    pc,               \* "ready": a call is set up; "done": it has returned
    call,             \* the operation invoked and its plain arguments
    document,         \* vscode.TextDocument: [lines, fsPath]
    workspaceFolder,  \* vscode.workspace.getWorkspaceFolder(document.uri)
    srcPath,          \* configuration strapiServiceNavigation.srcPath
    disk,             \* the filesystem: path -> file
    ret,              \* the value the operation returned
    shown,            \* messages shown through vscode.window.show*Message
    log,              \* what each call returned and showed, since the disk last changed
    pending           \* the file and member provideDefinition hands to findMethodDefinition

vars == <<pc, call, document, workspaceFolder, srcPath, disk, ret, shown, log, pending>>

-----------------------------------------------------------------------------
(* Bounds of the model.                                                    *)

MaxNameLen == 2
MaxFileLines == 2
MaxCalls == 2
MaxPathDepth == 4
MaxAbove == 2

-----------------------------------------------------------------------------
(* JavaScript values.                                                      *)

Null == [kind |-> "null"]

Min(S) == CHOOSE x \in S : \A y \in S : x <= y
Max(S) == CHOOSE x \in S : \A y \in S : x >= y

\* The least index of H, or -1 when there is none.
FirstIndex(H) == IF H = {} THEN -1 ELSE Min(H)

\* a || b for strings (the empty string stands for null and undefined too)
\* and for objects.
OrElse(a, b) == IF a # "" THEN a ELSE b
OrNull(a, b) == IF a # Null THEN a ELSE b

-----------------------------------------------------------------------------
(* String primitives (String.prototype), 0-based.                          *)

CharAt(s, i) == IF i >= 0 /\ i < Len(s) THEN SubSeq(s, i + 1, i + 1) ELSE ""

Slice(s, from, to) ==
    LET a == IF from < 0 THEN 0 ELSE IF from > Len(s) THEN Len(s) ELSE from
        b == IF to < 0 THEN 0 ELSE IF to > Len(s) THEN Len(s) ELSE to
    IN  IF a >= b THEN "" ELSE SubSeq(s, a + 1, b)

SliceFrom(s, from) == Slice(s, from, Len(s))

StartsWithAt(s, lit, i) ==
    /\ i >= 0
    /\ i + Len(lit) <= Len(s)
    /\ Slice(s, i, i + Len(lit)) = lit

StartsWith(s, lit) == StartsWithAt(s, lit, 0)

EndsWith(s, lit) == Len(lit) <= Len(s) /\ StartsWithAt(s, lit, Len(s) - Len(lit))

IndexOfFrom(s, lit, from) ==
    LET f == IF from < 0 THEN 0 ELSE from
        H == {k \in f..(Len(s) - Len(lit)) : StartsWithAt(s, lit, k)}
    IN  IF H = {} THEN -1 ELSE Min(H)

IndexOf(s, lit) == IndexOfFrom(s, lit, 0)

LastIndexOf(s, lit) ==
    LET H == {k \in 0..(Len(s) - Len(lit)) : StartsWithAt(s, lit, k)}
    IN  IF H = {} THEN -1 ELSE Max(H)

Includes(s, lit) == IndexOf(s, lit) # -1

-----------------------------------------------------------------------------
(* Character classes of the regular expressions.                           *)

Lower == {"a","b","c","d","e","f","g","h","i","j","k","l","m",
          "n","o","p","q","r","s","t","u","v","w","x","y","z"}
Upper == {"A","B","C","D","E","F","G","H","I","J","K","L","M",
          "N","O","P","Q","R","S","T","U","V","W","X","Y","Z"}
Digit == {"0","1","2","3","4","5","6","7","8","9"}
WordChar == Lower \cup Upper \cup Digit \cup {"_"}       \* \w
SpaceChar == {" ", "\t"}                                  \* \s
QuoteChar == {"'", "\""}                                  \* ['"]

\* End of the greedy run c* starting at i, for c in class C.
RECURSIVE RunEnd(_, _, _)
RunEnd(s, i, C) ==
    IF i < Len(s) /\ CharAt(s, i) \in C THEN RunEnd(s, i + 1, C) ELSE i

\* End of the greedy run [^...]* starting at i, for the excluded class C.
RECURSIVE RunEndNot(_, _, _)
RunEndNot(s, i, C) ==
    IF i < Len(s) /\ CharAt(s, i) \notin C THEN RunEndNot(s, i + 1, C) ELSE i

NoMatch == [found |-> FALSE]

-----------------------------------------------------------------------------
(* matchInlineServiceCall                                                  *)

\* /strapi\.service\(['"](api::[^'"]+)['"]\)\.(\w+)/ matched at index i.
ServiceCallRegexAt(s, i) ==
    LET q1   == i + 15
        n0   == q1 + 1
        n1   == RunEndNot(s, n0 + 5, QuoteChar)
        m0   == n1 + 3
        m1   == RunEnd(s, m0, WordChar)
    IN  IF /\ StartsWithAt(s, "strapi.service(", i)
           /\ CharAt(s, q1) \in QuoteChar
           /\ StartsWithAt(s, "api::", n0)
           /\ n1 > n0 + 5
           /\ CharAt(s, n1) \in QuoteChar
           /\ StartsWithAt(s, ").", n1 + 1)
           /\ m1 > m0
        THEN [found |-> TRUE, index |-> i, end |-> m1,
              all |-> Slice(s, i, m1),
              g1 |-> Slice(s, n0, n1), g2 |-> Slice(s, m0, m1)]
        ELSE NoMatch

\* serviceCallRegex.exec(lineText) with lastIndex: the leftmost match at or
\* after lastIndex.
ServiceCallRegexExec(s, lastIndex) ==
    ServiceCallRegexAt(s, FirstIndex({i \in lastIndex..Len(s) :
                                        ServiceCallRegexAt(s, i).found}))

ServiceCall(serviceName, methodName) ==
    [kind |-> "serviceCall", serviceName |-> serviceName, methodName |-> methodName]

\* Where `.methodName` is looked for inside the matched text.
MethodDotIndex(match0, methodName) == IndexOf(match0, "." \o methodName)

\* The while loop of matchInlineServiceCall: InlineLoop runs exec from
\* lastIndex, InlineStep is the loop body for its result `match`.
RECURSIVE InlineLoop(_, _, _)
InlineStep(match, lineText, character) ==
    IF ~match.found THEN Null
    ELSE LET serviceName    == match.g1
             methodName     == match.g2
             methodStartPos == match.index + MethodDotIndex(match.all, methodName) + 1
             methodEndPos   == methodStartPos + Len(methodName)
         IN  IF character >= methodStartPos /\ character <= methodEndPos
             THEN ServiceCall(serviceName, methodName)
             ELSE InlineLoop(lineText, character, match.end)

InlineLoop(lineText, character, lastIndex) ==
    InlineStep(ServiceCallRegexExec(lineText, lastIndex), lineText, character)

\* A matcher whose regular expression outlives the request: after an earlier
\* request the scan resumes past the start of the line, at the cursor offset.
matchInlineSharedRegex(lineText, character) ==
    InlineLoop(lineText, character, IF log = <<>> THEN 0 ELSE character)

matchInlineServiceCall(lineText, character) == InlineLoop(lineText, character, 0)

-----------------------------------------------------------------------------
(* Regular expressions as sets of positions: After*(s, P, ..) is the set   *)
(* of indices at which the next element can stop when started at an index  *)
(* of P.  A pattern matches when the set after its last element is not     *)
(* empty, whatever the order in which the engine backtracks.               *)

AfterLit(s, P, lit) == {p + Len(lit) : p \in {q \in P : StartsWithAt(s, lit, q)}}

AfterClass(s, P, C) == {p + 1 : p \in {q \in P : q < Len(s) /\ CharAt(s, q) \in C}}

AfterStar(s, P, C) == UNION {p..RunEnd(s, p, C) : p \in P}

AfterPlus(s, P, C) == UNION {(p + 1)..RunEnd(s, p, C) : p \in P}

AfterStarNot(s, P, C) == UNION {p..RunEndNot(s, p, C) : p \in P}

\* (async\s+)?
AfterOptAsync(s, P) == P \cup AfterPlus(s, AfterLit(s, P, "async"), SpaceChar)

\* The characters String.prototype.replace escapes in findMethodDefinition.
RegExpSpecial == {".", "*", "+", "?", "^", "$", "{", "}", "(", ")", "|", "[", "]", "\\"}

\* methodName.replace(/[.*+?^${}()|[\]\\]/g, '\\$&')
RECURSIVE EscapeRegExp(_)
EscapeRegExp(name) ==
    IF name = "" THEN ""
    ELSE LET c == CharAt(name, 0)
         IN  (IF c \in RegExpSpecial THEN "\\" \o c ELSE c)
                 \o EscapeRegExp(SliceFrom(name, 1))

\* The index after the pattern source `src` matched at index i of s, or -1.
\* `src` is an identifier spliced into a RegExp source: a backslash makes
\* the next character literal, a bare `$` asserts the end of the input and
\* every other character the identifiers of this program hold is literal.
RECURSIVE SourceEndAt(_, _, _)
SourceEndAt(s, i, src) ==
    IF src = "" THEN i
    ELSE LET c == CharAt(src, 0)
         IN  IF c = "\\" /\ Len(src) >= 2
             THEN IF CharAt(s, i) = CharAt(src, 1)
                  THEN SourceEndAt(s, i + 1, SliceFrom(src, 2))
                  ELSE -1
             ELSE IF c = "$"
             THEN IF i = Len(s) THEN SourceEndAt(s, i, SliceFrom(src, 1)) ELSE -1
             ELSE IF CharAt(s, i) = c
                  THEN SourceEndAt(s, i + 1, SliceFrom(src, 1))
                  ELSE -1

AfterSource(s, P, src) == {SourceEndAt(s, p, src) : p \in P} \ {-1}

-----------------------------------------------------------------------------
(* findMethodDefinition                                                    *)

\* ^\s*(async\s+)?NAME\s*\(
MethodPattern1(line, esc) ==
    LET p1 == AfterStar(line, {0}, SpaceChar)
        p2 == AfterOptAsync(line, p1)
        p3 == AfterSource(line, p2, esc)
        p4 == AfterStar(line, p3, SpaceChar)
    IN  AfterLit(line, p4, "(") # {}

\* :\s*(async\s+)?function\s*\(   started at the positions P
AfterColonFunction(line, P) ==
    LET p1 == AfterStar(line, P, SpaceChar)
        p2 == AfterLit(line, p1, ":")
        p3 == AfterStar(line, p2, SpaceChar)
        p4 == AfterOptAsync(line, p3)
        p5 == AfterLit(line, p4, "function")
        p6 == AfterStar(line, p5, SpaceChar)
    IN  AfterLit(line, p6, "(")

\* :\s*(async\s+)?\([^)]*\)\s*=>   started at the positions P
AfterColonArrow(line, P) ==
    LET p1 == AfterStar(line, P, SpaceChar)
        p2 == AfterLit(line, p1, ":")
        p3 == AfterStar(line, p2, SpaceChar)
        p4 == AfterOptAsync(line, p3)
        p5 == AfterLit(line, p4, "(")
        p6 == AfterStarNot(line, p5, {")"})
        p7 == AfterLit(line, p6, ")")
        p8 == AfterStar(line, p7, SpaceChar)
    IN  AfterLit(line, p8, "=>")

\* ^\s*NAME  and  ^\s*['"]NAME['"]
AfterBareName(line, esc) == AfterSource(line, AfterStar(line, {0}, SpaceChar), esc)
AfterQuotedName(line, esc) ==
    LET p1 == AfterStar(line, {0}, SpaceChar)
        p2 == AfterClass(line, p1, QuoteChar)
        p3 == AfterSource(line, p2, esc)
    IN  AfterClass(line, p3, QuoteChar)

MethodPattern2(line, esc) == AfterColonFunction(line, AfterBareName(line, esc)) # {}
MethodPattern3(line, esc) == AfterColonFunction(line, AfterQuotedName(line, esc)) # {}
MethodPattern4(line, esc) == AfterColonArrow(line, AfterBareName(line, esc)) # {}
MethodPattern5(line, esc) == AfterColonArrow(line, AfterQuotedName(line, esc)) # {}

\* line.match(methodPatterns[k])
MethodPatternMatches(k, line, esc) ==
    CASE k = 1 -> MethodPattern1(line, esc)
      [] k = 2 -> MethodPattern2(line, esc)
      [] k = 3 -> MethodPattern3(line, esc)
      [] k = 4 -> MethodPattern4(line, esc)
      [] k = 5 -> MethodPattern5(line, esc)

\* fileContent.split('\n')
RECURSIVE SplitOn(_, _)
SplitOn(s, sep) ==
    LET k == IndexOf(s, sep)
    IN  IF k = -1 THEN <<s>>
        ELSE <<Slice(s, 0, k)>> \o SplitOn(SliceFrom(s, k + Len(sep)), sep)

\* path.basename
Basename(filePath) == SliceFrom(filePath, LastIndexOf(filePath, "/") + 1)

Location(filePath, line, character) ==
    [kind |-> "location", uri |-> filePath, line |-> line, character |-> character]

Message(level, text) == [level |-> level, text |-> text]

\* The start index handed to line.indexOf(methodName, ..): match.index of a
\* pattern anchored with ^.
MethodSearchFrom(line, methodName) == 0

\* The inner loop over methodPatterns for lines[i]: the column, or -1.
RECURSIVE PatternLoop(_, _, _, _)
PatternLoop(k, line, methodName, esc) ==
    IF k > 5 THEN -1
    ELSE IF /\ MethodPatternMatches(k, line, esc)
            /\ IndexOfFrom(line, methodName, MethodSearchFrom(line, methodName)) # -1
         THEN IndexOfFrom(line, methodName, MethodSearchFrom(line, methodName))
         ELSE PatternLoop(k + 1, line, methodName, esc)

\* A scan that is pattern-major instead of line-major: the first pattern
\* that matches any line decides.
LineLoopPatternMajor(i, lines, methodName, esc) ==
    LET Hits(k) == {j \in i..(Len(lines) - 1) :
                      MethodPatternMatches(k, lines[j + 1], esc)}
        K == {k \in 1..5 : Hits(k) # {}}
    IN  IF K = {} THEN Null
        ELSE [line |-> Min(Hits(Min(K))),
              character |-> IndexOf(lines[Min(Hits(Min(K))) + 1], methodName)]

\* The outer loop over lines, i 0-based: [line, character], or Null.
RECURSIVE LineLoop(_, _, _, _)
LineLoop(i, lines, methodName, esc) ==
    IF i >= Len(lines) THEN Null
    ELSE LET col == PatternLoop(1, lines[i + 1], methodName, esc)
         IN  IF col # -1 THEN [line |-> i, character |-> col]
             ELSE LineLoop(i + 1, lines, methodName, esc)

\* fs.existsSync and fs.readFileSync(filePath, 'utf8') on a disk d.
ExistsSync(d, filePath) == filePath \in DOMAIN d
ReadFails(d, filePath) == ~ExistsSync(d, filePath) \/ ~d[filePath].readable
ReadError(d, filePath) ==
    IF ~ExistsSync(d, filePath)
    THEN "ENOENT: no such file or directory, open '" \o filePath \o "'"
    ELSE "EACCES: permission denied, open '" \o filePath \o "'"

\* What findMethodDefinition returns and shows once the loops have ended
\* with `hit`.
MethodResult(hit, filePath, methodName) ==
    IF hit # Null
    THEN [ret |-> Location(filePath, hit.line, hit.character), shown |-> <<>>]
    ELSE [ret |-> Null,
          shown |-> <<Message("warning",
                        "Method \"" \o methodName
                          \o "\" not found in service file: "
                          \o Basename(filePath))>>]

\* A findMethodDefinition without its try/catch: the error of
\* fs.readFileSync leaves the function, and provideDefinition, as a fault.
findMethodDefinitionUncaught(d, filePath, methodName) ==
    IF ReadFails(d, filePath)
    THEN [ret |-> [kind |-> "thrown", message |-> ReadError(d, filePath)], shown |-> <<>>]
    ELSE MethodResult(LineLoop(0, SplitOn(d[filePath].text, "\n"), methodName,
                               EscapeRegExp(methodName)),
                      filePath, methodName)

\* findMethodDefinition: [ret, shown], the value returned and the messages shown.
findMethodDefinition(d, filePath, methodName) ==
    IF ReadFails(d, filePath)
    THEN [ret |-> Null,
          shown |-> <<Message("error",
                        "Error reading service file: " \o ReadError(d, filePath))>>]
    ELSE MethodResult(LineLoop(0, SplitOn(d[filePath].text, "\n"), methodName,
                               EscapeRegExp(methodName)),
                      filePath, methodName)

-----------------------------------------------------------------------------
(* Paths (module path, POSIX).                                             *)

RECURSIVE JoinWith(_, _)
JoinWith(parts, sep) ==
    IF Len(parts) = 0 THEN ""
    ELSE IF Len(parts) = 1 THEN parts[1]
    ELSE parts[1] \o sep \o JoinWith(Tail(parts), sep)

\* Array.prototype.filter(Boolean) on strings: the empty ones are dropped.
RECURSIVE FilterNonEmpty(_)
FilterNonEmpty(parts) ==
    IF Len(parts) = 0 THEN <<>>
    ELSE (IF parts[1] = "" THEN <<>> ELSE <<parts[1]>>) \o FilterNonEmpty(Tail(parts))

\* The segments of a path with `.` dropped and `..` resolved against the
\* segments kept so far (`out`); above the root of an absolute path `..` is
\* dropped, in a relative path it is kept.
RECURSIVE ResolveDots(_, _, _)
ResolveDots(segs, out, absolute) ==
    IF Len(segs) = 0 THEN out
    ELSE LET h == segs[1]
         IN  IF h = "." THEN ResolveDots(Tail(segs), out, absolute)
             ELSE IF h = ".."
             THEN IF Len(out) > 0 /\ out[Len(out)] # ".."
                  THEN ResolveDots(Tail(segs), SubSeq(out, 1, Len(out) - 1), absolute)
                  ELSE IF absolute THEN ResolveDots(Tail(segs), out, absolute)
                  ELSE ResolveDots(Tail(segs), Append(out, ".."), absolute)
             ELSE ResolveDots(Tail(segs), Append(out, h), absolute)

PathSegments(p) ==
    ResolveDots(FilterNonEmpty(SplitOn(p, "/")), <<>>, StartsWith(p, "/"))

\* path.normalize
PathNormalize(p) ==
    LET absolute == StartsWith(p, "/")
        body     == JoinWith(PathSegments(p), "/")
        trailing == IF EndsWith(p, "/") /\ body # "" THEN "/" ELSE ""
    IN  IF p = "" THEN "."
        ELSE IF absolute THEN "/" \o body \o trailing
        ELSE IF body = "" THEN "." \o (IF EndsWith(p, "/") THEN "/" ELSE "")
        ELSE body \o trailing

\* path.join
PathJoin(parts) ==
    IF Len(FilterNonEmpty(parts)) = 0 THEN "."
    ELSE PathNormalize(JoinWith(FilterNonEmpty(parts), "/"))

\* The length of the longest common prefix of two segment sequences.
RECURSIVE CommonPrefixLen(_, _)
CommonPrefixLen(a, b) ==
    IF Len(a) = 0 \/ Len(b) = 0 \/ a[1] # b[1] THEN 0
    ELSE 1 + CommonPrefixLen(Tail(a), Tail(b))

\* path.relative(from, to), both absolute.
PathRelative(from, to) ==
    LET f  == PathSegments(from)
        t  == PathSegments(to)
        n  == CommonPrefixLen(f, t)
        up == [i \in 1..(Len(f) - n) |-> ".."]
    IN  JoinWith(up \o SubSeq(t, n + 1, Len(t)), "/")

-----------------------------------------------------------------------------
(* Path resolution.                                                        *)

\* A path-valued result that is null.  The callers test these results by
\* truthiness only, and no path built here is the empty string.
NoPath == ""

SupportedScriptExtensionsReordered == <<".ts", ".js", ".jsx", ".tsx">>

SUPPORTED_SCRIPT_EXTENSIONS == <<".js", ".ts", ".jsx", ".tsx">>

\* The loop of findExistingFileWithExtensions from the k-th extension on.
RECURSIVE ExtensionLoop(_, _, _)
ExtensionLoop(d, fileBasePath, k) ==
    IF k > Len(SUPPORTED_SCRIPT_EXTENSIONS) THEN NoPath
    ELSE LET candidatePath == fileBasePath \o SUPPORTED_SCRIPT_EXTENSIONS[k]
         IN  IF ExistsSync(d, candidatePath) THEN candidatePath
             ELSE ExtensionLoop(d, fileBasePath, k + 1)

findExistingFileWithExtensions(d, fileBasePath) == ExtensionLoop(d, fileBasePath, 1)

resolveFileWithExtensions(d, fileBasePath) ==
    OrElse(findExistingFileWithExtensions(d, fileBasePath), fileBasePath \o ".js")

\* resolveServiceFilePath(document, serviceName), given the workspace folder
\* of the document and the configured srcPath.
resolveServiceFilePath(d, folder, src, serviceName) ==
    LET split           == SplitOn(serviceName, "::")
        namespacePrefix == split[1]
        rest            == IF Len(split) >= 2 THEN split[2] ELSE ""
        parts           == SplitOn(rest, ".")
        contentType     == parts[1]
        serviceFileName == OrElse(JoinWith(Tail(parts), "."), contentType)
    IN  IF namespacePrefix # "api" \/ rest = "" THEN NoPath
        ELSE IF ~folder.found THEN NoPath
        ELSE resolveFileWithExtensions(d,
                 PathJoin(<<folder.fsPath, src, "api", contentType,
                            "services", serviceFileName>>))

\* A resolver that tries the services directory before the controllers one.
resolveControllerServicesFirst(d, folder, src, namespace, apiName, controllerName) ==
    LET dir == IF namespace = "api" THEN "api" ELSE "plugins"
        controllerBasePath ==
            PathJoin(<<folder.fsPath, src, dir, apiName, "controllers", controllerName>>)
        servicesBasePath ==
            PathJoin(<<folder.fsPath, src, dir, apiName, "services", controllerName>>)
    IN  IF ~folder.found \/ namespace \notin {"api", "plugin"} THEN NoPath
        ELSE OrElse(findExistingFileWithExtensions(d, servicesBasePath),
                    resolveFileWithExtensions(d, controllerBasePath))

resolveControllerFilePath(d, folder, src, namespace, apiName, controllerName) ==
    LET dir == IF namespace = "api" THEN "api" ELSE "plugins"
        controllerBasePath ==
            PathJoin(<<folder.fsPath, src, dir, apiName, "controllers", controllerName>>)
        servicesBasePath ==
            PathJoin(<<folder.fsPath, src, dir, apiName, "services", controllerName>>)
        controllerPath == findExistingFileWithExtensions(d, controllerBasePath)
        servicePath    == findExistingFileWithExtensions(d, servicesBasePath)
    IN  IF ~folder.found THEN NoPath
        ELSE IF namespace \notin {"api", "plugin"} THEN NoPath
        ELSE OrElse(controllerPath, OrElse(servicePath, controllerBasePath \o ".js"))

-----------------------------------------------------------------------------
(* Handler strings.                                                        *)

\* A string-valued result that is null or undefined.  The callers test
\* these results by truthiness only, which the empty string fails too.
NoName == ""

\* A choice that accepts a path of two components below srcPath.
ApiNameAnyDepth(segments) ==
    IF Len(segments) < 2 \/ segments[1] # "api" THEN NoName ELSE segments[2]

\* The end of inferApiNameFromDocument: the package the segments of the
\* relative path name.
ApiNameOfSegments(segments) ==
    IF Len(segments) < 3 \/ segments[1] # "api" THEN NoName ELSE segments[2]

\* inferApiNameFromDocument(document), given the workspace folder of the
\* document and the configured srcPath.
inferApiNameFromDocument(doc, folder, src) ==
    LET srcAbsolutePath == PathJoin(<<folder.fsPath, src>>)
        documentPath    == doc.fsPath
        relativeToSrc   == PathRelative(srcAbsolutePath, documentPath)
    IN  IF ~folder.found THEN NoName
        ELSE IF ~StartsWith(documentPath, srcAbsolutePath) THEN NoName
        ELSE ApiNameOfSegments(SplitOn(relativeToSrc, "/"))

Handler(namespace, apiName, controllerName, actionName) ==
    [kind |-> "handler", namespace |-> namespace, apiName |-> apiName,
     controllerName |-> controllerName, actionName |-> actionName]

\* A parser that takes the first dot-segment for the controller.
parseHandlerFirstSegments(handlerValue, doc, folder, src) ==
    LET segments == FilterNonEmpty(SplitOn(handlerValue, "."))
        inferred == inferApiNameFromDocument(doc, folder, src)
    IN  IF Len(segments) < 2 \/ Includes(handlerValue, "::") THEN Null
        ELSE Handler("api", OrElse(inferred, segments[2]), segments[2], segments[1])

\* parseHandlerString(handlerValue, document)
parseHandlerString(handlerValue, doc, folder, src) ==
    LET inferredApiName == inferApiNameFromDocument(doc, folder, src)
        namespaceSeparatorIndex == IndexOf(handlerValue, "::")
        namespace == IF namespaceSeparatorIndex # -1
                     THEN Slice(handlerValue, 0, namespaceSeparatorIndex)
                     ELSE "api"
        rest      == IF namespaceSeparatorIndex # -1
                     THEN SliceFrom(handlerValue, namespaceSeparatorIndex + 2)
                     ELSE handlerValue
        segments  == FilterNonEmpty(SplitOn(rest, "."))
        n         == Len(segments)
        actionName     == segments[n]                                \* segments.pop()
        controllerName == IF n >= 2 THEN segments[n - 1] ELSE NoName \* segments.pop() || null
        shifted        == IF n >= 3 THEN segments[1] ELSE NoName     \* segments.shift()
        explicit  == IF Includes(handlerValue, "::")
                     THEN OrElse(shifted, controllerName)
                     ELSE NoName
        apiName   == OrElse(explicit, OrElse(inferredApiName, controllerName))
    IN  IF handlerValue = "" THEN Null
        ELSE IF n = 0 THEN Null
        ELSE IF controllerName = NoName THEN Null
        ELSE IF namespace \notin {"api", "plugin"} THEN Null
        ELSE Handler(namespace, apiName, controllerName, actionName)

-----------------------------------------------------------------------------
(* matchChainedServiceCall and findServiceNameForVariable                  *)

IdentChar == WordChar \cup {"$"}                            \* [\w$]
IdentStart == Lower \cup Upper \cup {"_", "$"}              \* [A-Za-z_$]

\* document.getWordRangeAtPosition(position, /[\w$]+/): the maximal run of
\* [\w$] whose range, both ends included, holds the character offset.
WordRangeAt(lineText, character) ==
    LET Starts == {k \in 0..(Len(lineText) - 1) :
                     /\ CharAt(lineText, k) \in IdentChar
                     /\ (k = 0 \/ CharAt(lineText, k - 1) \notin IdentChar)
                     /\ k <= character
                     /\ character <= RunEnd(lineText, k, IdentChar)}
    IN  IF Starts = {} THEN NoMatch
        ELSE [found |-> TRUE, start |-> Min(Starts),
              end |-> RunEnd(lineText, Min(Starts), IdentChar)]

\* String.prototype.trimEnd
RECURSIVE TrimEnd(_)
TrimEnd(s) ==
    IF s # "" /\ CharAt(s, Len(s) - 1) \in SpaceChar
    THEN TrimEnd(Slice(s, 0, Len(s) - 1))
    ELSE s

\* variablePart.match(/([A-Za-z_$][\w$]*)\s*$/)[1], or NoName: the leftmost
\* start from which identifier characters and then spaces run to the end.
TrailingIdentifier(variablePart) ==
    LET Starts == {k \in 0..(Len(variablePart) - 1) :
                     /\ CharAt(variablePart, k) \in IdentStart
                     /\ RunEnd(variablePart, RunEnd(variablePart, k + 1, IdentChar),
                               SpaceChar) = Len(variablePart)}
    IN  IF Starts = {} THEN NoName
        ELSE Slice(variablePart, Min(Starts),
                   RunEnd(variablePart, Min(Starts) + 1, IdentChar))

\* \s*=\s*strapi\.service\(['"](api::[^'"]+)['"]\) matched at index j: the
\* captured service name, or NoName.
AssignedServiceAt(s, j) ==
    LET e0 == RunEnd(s, j, SpaceChar)
        c0 == RunEnd(s, e0 + 1, SpaceChar)
        n0 == c0 + 16
        n1 == RunEndNot(s, n0 + 5, QuoteChar)
    IN  IF /\ CharAt(s, e0) = "="
           /\ StartsWithAt(s, "strapi.service(", c0)
           /\ CharAt(s, c0 + 15) \in QuoteChar
           /\ StartsWithAt(s, "api::", n0)
           /\ n1 > n0 + 5
           /\ CharAt(s, n1) \in QuoteChar
           /\ CharAt(s, n1 + 1) = ")"
        THEN Slice(s, n0, n1)
        ELSE NoName

\* assignmentPatterns[1] matched at index i: ${variableName}\s*=\s*strapi...
ReassignmentAt(s, i, variableName) ==
    LET e == SourceEndAt(s, i, variableName)
    IN  IF e = -1 THEN NoName ELSE AssignedServiceAt(s, e)

\* assignmentPatterns[0] matched at index i: (?:const|let|var)\s+${variableName}...
DeclarationAt(s, i, variableName) ==
    LET k == IF StartsWithAt(s, "const", i) THEN i + 5
             ELSE IF StartsWithAt(s, "let", i) THEN i + 3
             ELSE IF StartsWithAt(s, "var", i) THEN i + 3
             ELSE -1
        v == RunEnd(s, k, SpaceChar)
    IN  IF k = -1 \/ v = k THEN NoName ELSE ReassignmentAt(s, v, variableName)

\* lineText.match(pattern)[1] for the two assignment patterns in turn: the
\* capture of the leftmost match of the first pattern that matches.
AssignmentOnLine(lineText, variableName) ==
    LET D == {i \in 0..Len(lineText) : DeclarationAt(lineText, i, variableName) # NoName}
        R == {i \in 0..Len(lineText) : ReassignmentAt(lineText, i, variableName) # NoName}
    IN  OrElse(DeclarationAt(lineText, FirstIndex(D), variableName),
               ReassignmentAt(lineText, FirstIndex(R), variableName))

\* A scan from line 0 down to startLine: the first assignment of the file wins.
RECURSIVE ScanDownFrom(_, _, _, _)
ScanDownFrom(lines, k, startLine, variableName) ==
    IF k > startLine THEN NoName
    ELSE OrElse(AssignmentOnLine(lines[k + 1], variableName),
                ScanDownFrom(lines, k + 1, startLine, variableName))

findServiceNameFromTop(lines, startLine, variableName) ==
    ScanDownFrom(lines, 0, startLine, variableName)

\* findServiceNameForVariable(document, startLine, variableName): the loop
\* from startLine down to line 0.
RECURSIVE findServiceNameForVariable(_, _, _)
findServiceNameForVariable(lines, lineNumber, variableName) ==
    IF lineNumber < 0 THEN NoName
    ELSE OrElse(AssignmentOnLine(lines[lineNumber + 1], variableName),
                findServiceNameForVariable(lines, lineNumber - 1, variableName))

\* variablePart.endsWith('?') ? variablePart.slice(0, -1).trimEnd() : variablePart
DropOptionalChaining(variablePart) ==
    IF EndsWith(variablePart, "?")
    THEN TrimEnd(Slice(variablePart, 0, Len(variablePart) - 1))
    ELSE variablePart

\* The end of matchChainedServiceCall, from the variable in front of the dot.
ChainedCallOf(variableName, methodName, lines, line) ==
    IF variableName = NoName THEN Null
    ELSE LET Found(serviceName) ==
                 IF serviceName = NoName THEN Null
                 ELSE ServiceCall(serviceName, methodName)
         IN  Found(findServiceNameForVariable(lines, line, variableName))

\* matchChainedServiceCall from the word under the cursor on.
ChainedCallAt(wordRange, doc, position) ==
    LET lineText   == doc.lines[position.line + 1]
        methodName == Slice(lineText, wordRange.start, wordRange.end)
        textBeforeMethod == Slice(lineText, 0, wordRange.start)
        dotIndex   == LastIndexOf(textBeforeMethod, ".")
        variablePart ==
            DropOptionalChaining(TrimEnd(Slice(textBeforeMethod, 0, dotIndex)))
    IN  IF ~wordRange.found THEN Null
        ELSE IF dotIndex = -1 THEN Null
        ELSE ChainedCallOf(TrailingIdentifier(variablePart), methodName,
                           doc.lines, position.line)

\* matchChainedServiceCall(document, position)
matchChainedServiceCall(doc, position) ==
    ChainedCallAt(WordRangeAt(doc.lines[position.line + 1], position.character),
                  doc, position)

\* findServiceCallAtPosition(document, position)
findServiceCallAtPosition(doc, position) ==
    OrNull(matchInlineServiceCall(doc.lines[position.line + 1], position.character),
           matchChainedServiceCall(doc, position))

-----------------------------------------------------------------------------
(* findControllerHandlerAtPosition and provideDefinition                   *)

\* /(?:['"])?handler(?:['"])?\s*:\s*['"]([^'"]+)['"]/ matched at index i.
HandlerRegexAt(s, i) ==
    LET h0 == IF CharAt(s, i) \in QuoteChar THEN i + 1 ELSE i
        h1 == h0 + 7
        k0 == IF CharAt(s, h1) \in QuoteChar THEN h1 + 1 ELSE h1
        c0 == RunEnd(s, k0, SpaceChar)
        q0 == RunEnd(s, c0 + 1, SpaceChar)
        v0 == q0 + 1
        v1 == RunEndNot(s, v0, QuoteChar)
    IN  IF /\ StartsWithAt(s, "handler", h0)
           /\ CharAt(s, c0) = ":"
           /\ CharAt(s, q0) \in QuoteChar
           /\ v1 > v0
           /\ CharAt(s, v1) \in QuoteChar
        THEN [found |-> TRUE, index |-> i, end |-> v1 + 1, g1 |-> Slice(s, v0, v1)]
        ELSE NoMatch

\* handlerRegex.exec(lineText) with lastIndex.
HandlerRegexExec(s, lastIndex) ==
    HandlerRegexAt(s, FirstIndex({i \in lastIndex..Len(s) : HandlerRegexAt(s, i).found}))

\* The while loop of findControllerHandlerAtPosition: HandlerLoop runs exec
\* from lastIndex, HandlerStep is the loop body for its result `match`.
RECURSIVE HandlerLoop(_, _, _, _, _, _)
HandlerStep(match, lineText, character, doc, folder, src) ==
    IF ~match.found THEN Null
    ELSE LET handlerValue == match.g1
             handlerStart == IndexOfFrom(lineText, handlerValue, match.index)
             handlerEnd   == handlerStart + Len(handlerValue)
         IN  IF /\ handlerStart # -1
                /\ character >= handlerStart
                /\ character <= handlerEnd
             THEN parseHandlerString(handlerValue, doc, folder, src)
             ELSE HandlerLoop(lineText, character, match.end, doc, folder, src)

HandlerLoop(lineText, character, lastIndex, doc, folder, src) ==
    HandlerStep(HandlerRegexExec(lineText, lastIndex), lineText, character,
                doc, folder, src)

\* findControllerHandlerAtPosition(document, position)
findControllerHandlerAtPosition(doc, position, folder, src) ==
    HandlerLoop(doc.lines[position.line + 1], position.character, 0, doc, folder, src)

\* What the part of provideDefinition before findMethodDefinition decides:
\* to return `ret` after showing `shown`, or to go on and read filePath.
ReturnNow(value, msgs) ==
    [read |-> FALSE, ret |-> value, shown |-> msgs, filePath |-> NoPath, name |-> NoName]
ReadNext(filePath, name) ==
    [read |-> TRUE, ret |-> Null, shown |-> <<>>, filePath |-> filePath, name |-> name]

\* A provideDefinition that looks for a controller handler before it looks
\* for a service call.
TargetOfHandlerFirst(serviceCallMatch, controllerHandlerMatch, folder, src, d) ==
    IF controllerHandlerMatch # Null
    THEN [kind |-> "Controller",
          path |-> resolveControllerFilePath(d, folder, src,
                       controllerHandlerMatch.namespace,
                       controllerHandlerMatch.apiName,
                       controllerHandlerMatch.controllerName),
          name |-> controllerHandlerMatch.actionName]
    ELSE IF serviceCallMatch # Null
    THEN [kind |-> "Service",
          path |-> resolveServiceFilePath(d, folder, src, serviceCallMatch.serviceName),
          name |-> serviceCallMatch.methodName]
    ELSE Null

\* The target of a service call or a handler found at the cursor: its
\* kind, the file path resolved for it and the member looked for; Null when
\* neither was found.
TargetOf(serviceCallMatch, controllerHandlerMatch, folder, src, d) ==
    IF serviceCallMatch # Null
    THEN [kind |-> "Service",
          path |-> resolveServiceFilePath(d, folder, src, serviceCallMatch.serviceName),
          name |-> serviceCallMatch.methodName]
    ELSE IF controllerHandlerMatch # Null
    THEN [kind |-> "Controller",
          path |-> resolveControllerFilePath(d, folder, src,
                       controllerHandlerMatch.namespace,
                       controllerHandlerMatch.apiName,
                       controllerHandlerMatch.controllerName),
          name |-> controllerHandlerMatch.actionName]
    ELSE Null

\* The target of the reference at the cursor.
TargetAt(doc, position, folder, src, d) ==
    TargetOf(findServiceCallAtPosition(doc, position),
             findControllerHandlerAtPosition(doc, position, folder, src),
             folder, src, d)

\* A lookup that says nothing when the target file is missing.
LookupSilent(target, d) ==
    IF target = Null THEN ReturnNow(Null, <<>>)
    ELSE IF target.path = NoPath \/ ~ExistsSync(d, target.path)
    THEN ReturnNow(Null, <<>>)
    ELSE ReadNext(target.path, target.name)

\* What provideDefinition does for the target it found, up to the call of
\* findMethodDefinition.
LookupFor(target, d) ==
    IF target = Null THEN ReturnNow(Null, <<>>)
    ELSE IF target.path = NoPath THEN ReturnNow(Null, <<>>)
    ELSE IF ~ExistsSync(d, target.path)
    THEN ReturnNow(Null, <<Message("warning",
             target.kind \o " file not found: " \o target.path)>>)
    ELSE ReadNext(target.path, target.name)

\* provideDefinition up to the call of findMethodDefinition.
provideDefinitionLookup(doc, position, folder, src, d) ==
    LookupFor(TargetAt(doc, position, folder, src, d), d)

-----------------------------------------------------------------------------
(* Inputs shared by the specifications.                                    *)

\* All strings over alphabet A of length 1..n.
RECURSIVE StringsUpTo(_, _)
StringsUpTo(A, n) ==
    IF n <= 1 THEN A
    ELSE LET S == StringsUpTo(A, n - 1)
         IN  S \cup {x \o c : x \in S, c \in A}

NoDocument == [lines |-> <<>>, fsPath |-> ""]
NoFolder == [found |-> FALSE, fsPath |-> ""]
EmptyDisk == [p \in {} |-> ""]

\* A call of operation `op` is set up and has not run.
Idle(op) ==
    /\ pc = "ready"
    /\ call.op = op
    /\ ret = Null
    /\ shown = <<>>

\* Nothing has been called yet.
Fresh ==
    /\ pc = "ready"
    /\ ret = Null
    /\ shown = <<>>
    /\ log = <<>>
    /\ pending = Null

\* The call returns `value` after showing the messages `msgs`.
Returns(value, msgs) ==
    /\ ret' = value
    /\ shown' = shown \o msgs
    /\ log' = Append(log, [ret |-> value, shown |-> msgs])
    /\ pc' = "done"

\* The call returns what the operation produced: its value and its messages.
ReturnsResult(r) == Returns(r.ret, r.shown)

PathValue(p) == IF p = NoPath THEN Null ELSE [kind |-> "path", path |-> p]

\* The same call is made again with the same arguments.
CallAgain ==
    /\ pc = "done"
    /\ Len(log) < MaxCalls
    /\ pc' = "ready"
    /\ ret' = Null
    /\ shown' = <<>>
    /\ pending' = Null
    /\ UNCHANGED <<call, document, workspaceFolder, srcPath, disk, log>>

\* Between two calls another process creates or removes one of the files
\* call.files of the scenario.
DiskChange ==
    /\ pc = "done"
    /\ \E p \in DOMAIN call.files :
         disk' = IF p \in DOMAIN disk
                 THEN [q \in DOMAIN disk \ {p} |-> disk[q]]
                 ELSE [q \in DOMAIN disk \cup {p} |-> call.files[q]]
    /\ pc' = "ready"
    /\ ret' = Null
    /\ shown' = <<>>
    /\ log' = <<>>
    /\ pending' = Null
    /\ UNCHANGED <<call, document, workspaceFolder, srcPath>>

-----------------------------------------------------------------------------
(* Specification SpecInline: matchInlineServiceCall on one line.           *)

InlineNames == StringsUpTo({"a", "s"}, MaxNameLen)
InlinePrefixes == {"", "x = await "}
InlineSuffixes == {"", "(1)"}

\* The line  <prefix>strapi.service(<q>api::<a>.<b><q>).<m><suffix>  and the
\* index of the dot in front of <m>.
InlineLine(prefix, q, a, b, m, suffix) ==
    prefix \o "strapi.service(" \o q \o "api::" \o a \o "." \o b \o q \o ")."
           \o m \o suffix
InlineDot(prefix, a, b) == Len(prefix) + Len(a) + Len(b) + 24

InitInline ==
    /\ \E prefix \in InlinePrefixes, q \in QuoteChar, a \in {"a", "s"},
          b \in InlineNames, m \in InlineNames, suffix \in InlineSuffixes :
         \E character \in 0..Len(InlineLine(prefix, q, a, b, m, suffix)) :
            call = [op |-> "matchInlineServiceCall",
                    lineText |-> InlineLine(prefix, q, a, b, m, suffix),
                    character |-> character,
                    a |-> a, b |-> b, m |-> m,
                    dot |-> InlineDot(prefix, a, b)]
    /\ document = NoDocument
    /\ workspaceFolder = NoFolder
    /\ srcPath = "src"
    /\ disk = EmptyDisk
    /\ Fresh

CallMatchInlineServiceCall ==
    /\ Idle("matchInlineServiceCall")
    /\ Returns(matchInlineServiceCall(call.lineText, call.character), <<>>)
    /\ UNCHANGED <<call, document, workspaceFolder, srcPath, disk, pending>>

NextInline == CallMatchInlineServiceCall

SpecInline == InitInline /\ [][NextInline]_vars

(* C1: on a line holding strapi.service('api::a.b').m the matcher returns  *)
(* service name api::a.b and member m for every cursor offset on the       *)
(* member identifier after the dot (start and end included), and nothing   *)
(* for every offset outside the span of `.m`, for all names a, b, m,       *)
(* m = b and m a prefix of an earlier dotted fragment included.            *)
C1_InlineSpan ==
    (pc = "done" /\ call.op = "matchInlineServiceCall") =>
        LET c == call.character
            first == call.dot + 1
            last  == call.dot + 1 + Len(call.m)
        IN  /\ (c >= first /\ c <= last) =>
                 ret = ServiceCall("api::" \o call.a \o "." \o call.b, call.m)
            /\ (c < call.dot \/ c > last) => ret = Null

-----------------------------------------------------------------------------
(* Specification SpecLocate: findMethodDefinition on one target file.      *)

RECURSIVE JoinLines(_)
JoinLines(texts) ==
    IF Len(texts) = 0 THEN ""
    ELSE IF Len(texts) = 1 THEN texts[1]
    ELSE texts[1] \o "\n" \o JoinLines(Tail(texts))

LocateNames == {"get", "sync"}
LocateShapes == 1..5

AsyncWord(async) == IF async THEN "async " ELSE ""

\* A definition of `name` in shape 1..5, with the column of its name token.
DefLine(shape, name, async) ==
    CASE shape = 1 ->
           [text |-> "  " \o AsyncWord(async) \o name \o "(id) {",
            name |-> name, col |-> 2 + Len(AsyncWord(async))]
      [] shape = 2 ->
           [text |-> "  " \o name \o ": " \o AsyncWord(async) \o "function (id) {",
            name |-> name, col |-> 2]
      [] shape = 3 ->
           [text |-> "'" \o name \o "' : " \o AsyncWord(async) \o "function(id) {",
            name |-> name, col |-> 1]
      [] shape = 4 ->
           [text |-> " " \o name \o ": " \o AsyncWord(async) \o "(id) => id,",
            name |-> name, col |-> 1]
      [] shape = 5 ->
           [text |-> "  \"" \o name \o "\": " \o AsyncWord(async) \o "(a, b) =>",
            name |-> name, col |-> 3]

\* Lines that define nothing.
PlainLine(text) == [text |-> text, name |-> "", col |-> -1]

LocateLines ==
    {DefLine(k, n, a) : k \in LocateShapes, n \in LocateNames, a \in BOOLEAN}
      \cup {PlainLine("  return this.get(id);"), PlainLine("}")}

LocateFiles == UNION {[1..n -> LocateLines] : n \in 1..MaxFileLines}

TargetFile == "/ws/src/api/a/services/a.js"

FileOf(given) == [readable |-> TRUE,
                  text |-> JoinLines([i \in 1..Len(given) |-> given[i].text])]

InitLocate ==
    /\ \E given \in LocateFiles, methodName \in LocateNames :
         /\ call = [op |-> "findMethodDefinition", filePath |-> TargetFile,
                    methodName |-> methodName, given |-> given]
         /\ \/ disk = (TargetFile :> FileOf(given))
            \/ /\ Len(given) = 1
               /\ disk \in {EmptyDisk,
                            (TargetFile :> [FileOf(given) EXCEPT !.readable = FALSE])}
    /\ document = NoDocument
    /\ workspaceFolder = NoFolder
    /\ srcPath = "src"
    /\ Fresh

CallFindMethodDefinition ==
    /\ Idle("findMethodDefinition")
    /\ ReturnsResult(findMethodDefinition(disk, call.filePath, call.methodName))
    /\ UNCHANGED <<call, document, workspaceFolder, srcPath, disk, pending>>

NextLocate == CallFindMethodDefinition

SpecLocate == InitLocate /\ [][NextLocate]_vars

\* The 1-based indices of the lines of the file that define call.methodName.
DefiningLines == {i \in 1..Len(call.given) : call.given[i].name = call.methodName}

LocateDone ==
    pc = "done" /\ call.op = "findMethodDefinition" /\ ~ReadFails(disk, call.filePath)

(* C3: the column of the returned location is the offset of the member-name *)
(* token of the matched definition on the returned line, in every one of    *)
(* the five shapes, also when the name occurs earlier on the line (inside   *)
(* a leading `async`).                                                      *)
C3_ColumnIsToken ==
    (LocateDone /\ ret.kind = "location") =>
        ret.character = call.given[ret.line + 1].col

(* C4: the returned line is the lowest-index line of the file that defines  *)
(* the member in any of the five shapes; when no line does, the result is   *)
(* null with exactly one warning, naming the member and the file.           *)
C4_FirstLineWins ==
    LocateDone =>
        IF DefiningLines = {}
        THEN /\ ret = Null
             /\ Len(shown) = 1
             /\ shown[1].level = "warning"
             /\ Includes(shown[1].text, "\"" \o call.methodName \o "\"")
             /\ Includes(shown[1].text, Basename(call.filePath))
        ELSE /\ ret.kind = "location"
             /\ ret.uri = call.filePath
             /\ ret.line = Min(DefiningLines) - 1
             /\ shown = <<>>

\* A definition in a lower-priority shape on line 0 won over a shape-1
\* definition on line 1.
C4_Witness ==
    /\ LocateDone
    /\ Len(call.given) >= 2
    /\ DefiningLines = {1, 2}
    /\ MethodPattern5(call.given[1].text, EscapeRegExp(call.methodName))
    /\ MethodPattern1(call.given[2].text, EscapeRegExp(call.methodName))
    /\ ret.kind = "location" /\ ret.line = 0

-----------------------------------------------------------------------------
(* Specification SpecResolve: resolveFileWithExtensions and                *)
(* resolveControllerFilePath against a changing disk.                      *)

PlainFile == [readable |-> TRUE, text |-> ""]

\* The configured srcPath and the directory it names under the workspace.
SrcChoices == {[cfg |-> "src", dir |-> "src"], [cfg |-> "app/", dir |-> "app"]}

WorkspaceRoot == [found |-> TRUE, fsPath |-> "/ws"]

\* The extension order the resolution is specified with.
ExtensionOrder == <<".js", ".ts", ".jsx", ".tsx">>

ControllersBase(srcDir, nsDir) == "/ws/" \o srcDir \o "/" \o nsDir \o "/pkg/controllers/ctrl"
ServicesBase(srcDir, nsDir) == "/ws/" \o srcDir \o "/" \o nsDir \o "/pkg/services/ctrl"

\* The candidate files of both directories.
CandidateFiles(srcDir, nsDir) ==
    [p \in {b \o ExtensionOrder[k] :
              b \in {ControllersBase(srcDir, nsDir), ServicesBase(srcDir, nsDir)},
              k \in 1..Len(ExtensionOrder)} |-> PlainFile]

NamespaceDir(namespace) == IF namespace = "plugin" THEN "plugins" ELSE "api"

InitResolve ==
    /\ \E src \in SrcChoices :
         /\ srcPath = src.cfg
         /\ \/ /\ workspaceFolder = WorkspaceRoot
               /\ src.dir = "src"
               /\ \E base \in {ControllersBase("src", "api"), ServicesBase("src", "api")} :
                    call = [op |-> "resolveFileWithExtensions", fileBasePath |-> base,
                            files |-> CandidateFiles("src", "api")]
            \/ /\ workspaceFolder \in {WorkspaceRoot, NoFolder}
               /\ \E namespace \in {"api", "plugin", "admin"} :
                    call = [op |-> "resolveControllerFilePath",
                            namespace |-> namespace, apiName |-> "pkg",
                            controllerName |-> "ctrl",
                            controllers |-> ControllersBase(src.dir, NamespaceDir(namespace)),
                            services |-> ServicesBase(src.dir, NamespaceDir(namespace)),
                            files |-> CandidateFiles(src.dir, NamespaceDir(namespace))]
    /\ \E S \in SUBSET DOMAIN call.files : disk = [p \in S |-> call.files[p]]
    /\ document = [lines |-> <<"">>, fsPath |-> "/ws/src/api/pkg/routes/pkg.js"]
    /\ Fresh

CallResolveFileWithExtensions ==
    /\ Idle("resolveFileWithExtensions")
    /\ Returns(PathValue(resolveFileWithExtensions(disk, call.fileBasePath)), <<>>)
    /\ UNCHANGED <<call, document, workspaceFolder, srcPath, disk, pending>>

CallResolveControllerFilePath ==
    /\ Idle("resolveControllerFilePath")
    /\ Returns(PathValue(resolveControllerFilePath(disk, workspaceFolder, srcPath,
                   call.namespace, call.apiName, call.controllerName)), <<>>)
    /\ UNCHANGED <<call, document, workspaceFolder, srcPath, disk, pending>>

NextResolve ==
    \/ CallResolveFileWithExtensions
    \/ CallResolveControllerFilePath
    \/ CallAgain
    \/ DiskChange

SpecResolve == InitResolve /\ [][NextResolve]_vars

\* The positions in ExtensionOrder of the candidates of `base` that exist.
Existing(base) == {k \in 1..Len(ExtensionOrder) : (base \o ExtensionOrder[k]) \in DOMAIN disk}

(* C5: resolveFileWithExtensions returns base+ext for the first ext of     *)
(* .js, .ts, .jsx, .tsx whose file exists, base+'.js' when none exists,    *)
(* and every call made while the disk is unchanged returns the same path.  *)
C5_FirstExistingExtension ==
    (pc = "done" /\ call.op = "resolveFileWithExtensions") =>
        /\ ret = [kind |-> "path",
                  path |-> IF Existing(call.fileBasePath) = {}
                           THEN call.fileBasePath \o ".js"
                           ELSE call.fileBasePath
                                  \o ExtensionOrder[Min(Existing(call.fileBasePath))]]
        /\ \A i \in DOMAIN log : log[i].ret = ret

\* A second call on the same disk, where .js is missing and .ts and .jsx exist.
C5_Witness ==
    /\ pc = "done" /\ call.op = "resolveFileWithExtensions"
    /\ Existing(call.fileBasePath) = {2, 3}
    /\ Len(log) = 2
    /\ ret.path = call.fileBasePath \o ".ts"

(* C6: with a workspace root and namespace api or plugin,                  *)
(* resolveControllerFilePath returns the first existing candidate under    *)
(* controllers/ whenever one exists; the first existing candidate under    *)
(* services/ only when no controllers candidate exists; and the            *)
(* controllers base path with '.js' appended when neither directory has    *)
(* one (never null, never the services path).                              *)
C6_ControllersThenServices ==
    (/\ pc = "done" /\ call.op = "resolveControllerFilePath"
     /\ workspaceFolder.found /\ call.namespace \in {"api", "plugin"}) =>
        ret = [kind |-> "path",
               path |-> IF Existing(call.controllers) # {}
                        THEN call.controllers \o ExtensionOrder[Min(Existing(call.controllers))]
                        ELSE IF Existing(call.services) # {}
                        THEN call.services \o ExtensionOrder[Min(Existing(call.services))]
                        ELSE call.controllers \o ".js"]

\* The services fallback: no controllers candidate, a services candidate.
C6_Witness ==
    /\ pc = "done" /\ call.op = "resolveControllerFilePath"
    /\ workspaceFolder.found /\ call.namespace = "plugin" /\ srcPath = "app/"
    /\ Existing(call.controllers) = {}
    /\ Existing(call.services) = {2, 4}
    /\ ret = [kind |-> "path", path |-> "/ws/app/plugins/pkg/services/ctrl.ts"]

-----------------------------------------------------------------------------
(* Specification SpecHandler: parseHandlerString and                       *)
(* inferApiNameFromDocument.                                               *)

StringValue(x) == IF x = NoName THEN Null ELSE [kind |-> "string", value |-> x]

\* Paths of 1..MaxPathDepth components below the source directory.
PathComponents == {"api", "pkg", "x.js"}
RelativePaths == UNION {[1..n -> PathComponents] : n \in 1..MaxPathDepth}

\* A document at the relative path `rel` below /ws/<srcDir>.
DocumentBelow(srcDir, rel) ==
    [lines |-> <<"">>, fsPath |-> "/ws/" \o srcDir \o "/" \o JoinWith(rel, "/")]

\* Documents that are not below the source directory /ws/src.
DocumentsOutside ==
    {[lines |-> <<"">>, fsPath |-> f] :
        f \in {"/ws/src2/api/pkg/routes/x.js", "/ws/config/api/pkg/x.js", "/ws/src"}}

HandlerNames == StringsUpTo({"a", "b"}, MaxNameLen)
HandlerForms == {"a.b", "api::a.b", "plugin::a.b", "api::p.a.b", "plugin::p.a.b",
                 "admin::a.b", "a", "a.", ".b", "api::b", "x.a.b"}

\* The handler string of a form, for controller a and action b.
HandlerValue(form, a, b) ==
    CASE form = "a.b"           -> a \o "." \o b
      [] form = "api::a.b"      -> "api::" \o a \o "." \o b
      [] form = "plugin::a.b"   -> "plugin::" \o a \o "." \o b
      [] form = "api::p.a.b"    -> "api::other." \o a \o "." \o b
      [] form = "plugin::p.a.b" -> "plugin::other." \o a \o "." \o b
      [] form = "admin::a.b"    -> "admin::" \o a \o "." \o b
      [] form = "a"             -> a
      [] form = "a."            -> a \o "."
      [] form = ".b"            -> "." \o b
      [] form = "api::b"        -> "api::" \o b
      [] form = "x.a.b"         -> "x." \o a \o "." \o b

\* The documents parseHandlerString is called from, each with the package
\* its path names (none when the path names no package).
HandlerSites ==
    {[doc |-> DocumentBelow("src", <<"api", "pkg", "routes", "x.js">>),
      folder |-> WorkspaceRoot, package |-> "pkg"],
     [doc |-> DocumentBelow("src", <<"extensions", "x.js">>),
      folder |-> WorkspaceRoot, package |-> NoName],
     [doc |-> DocumentBelow("src", <<"api", "pkg", "routes", "x.js">>),
      folder |-> NoFolder, package |-> NoName]}

InitHandler ==
    /\ \/ /\ \E form \in HandlerForms, a \in HandlerNames, b \in HandlerNames,
                site \in HandlerSites :
               /\ call = [op |-> "parseHandlerString",
                          handlerValue |-> HandlerValue(form, a, b),
                          form |-> form, a |-> a, b |-> b, package |-> site.package]
               /\ document = site.doc
               /\ workspaceFolder = site.folder
          /\ srcPath = "src"
       \/ /\ \E src \in SrcChoices, rel \in RelativePaths :
               /\ call = [op |-> "inferApiNameFromDocument", inside |-> TRUE, rel |-> rel]
               /\ document = DocumentBelow(src.dir, rel)
               /\ srcPath = src.cfg
          /\ workspaceFolder \in {WorkspaceRoot, NoFolder}
       \/ /\ call = [op |-> "inferApiNameFromDocument", inside |-> FALSE, rel |-> <<>>]
          /\ document \in DocumentsOutside
          /\ srcPath = "src"
          /\ workspaceFolder = WorkspaceRoot
    /\ disk = EmptyDisk
    /\ Fresh

CallParseHandlerString ==
    /\ Idle("parseHandlerString")
    /\ Returns(parseHandlerString(call.handlerValue, document, workspaceFolder, srcPath), <<>>)
    /\ UNCHANGED <<call, document, workspaceFolder, srcPath, disk, pending>>

CallInferApiNameFromDocument ==
    /\ Idle("inferApiNameFromDocument")
    /\ Returns(StringValue(inferApiNameFromDocument(document, workspaceFolder, srcPath)), <<>>)
    /\ UNCHANGED <<call, document, workspaceFolder, srcPath, disk, pending>>

NextHandler == CallParseHandlerString \/ CallInferApiNameFromDocument

SpecHandler == InitHandler /\ [][NextHandler]_vars

ParseDone == pc = "done" /\ call.op = "parseHandlerString"

\* The package parsing has to fall back on: the one the path of the
\* current file names, or the controller when the path names none.
InferredOr(controller) == IF call.package # NoName THEN call.package ELSE controller

(* C8: for a handler with a namespace separator and no leading package     *)
(* segment ('api::ctrl.action') the package is the one inferred from the    *)
(* path of the current file, and the controller name only when nothing can  *)
(* be inferred.                                                             *)
C8_SeparatorWithoutPackage ==
    (ParseDone /\ call.form \in {"api::a.b", "plugin::a.b"}) =>
        /\ ret.kind = "handler"
        /\ ret.apiName = InferredOr(call.a)

(* C9: a handler 'a.b' without a namespace separator parses to namespace    *)
(* api, controller a, action b and the package inferred from the path of    *)
(* the current file, or a when nothing can be inferred; a handler with      *)
(* fewer than two non-empty dot-segments, or with a namespace other than    *)
(* api and plugin, parses to nothing.                                       *)
C9_Shorthand ==
    ParseDone =>
        /\ call.form = "a.b" => ret = Handler("api", InferredOr(call.a), call.a, call.b)
        /\ call.form \in {"a", "a.", ".b", "api::b", "admin::a.b"} => ret = Null

\* A shorthand handler parsed in a file below src/api/pkg.
C9_Witness ==
    /\ ParseDone /\ call.form = "a.b" /\ call.a # call.b /\ call.package = "pkg"
    /\ ret = Handler("api", "pkg", call.a, call.b)

InferDone == pc = "done" /\ call.op = "inferApiNameFromDocument"

\* C10 as stated: a second component is enough.
C10_SecondComponent ==
    (InferDone /\ call.inside /\ workspaceFolder.found) =>
        ret = IF call.rel[1] = "api" /\ Len(call.rel) >= 2
              THEN [kind |-> "string", value |-> call.rel[2]]
              ELSE Null

(* C10 (amended): for a current file inside the source directory, the       *)
(* inferred package is the second component of its relative path when the   *)
(* first is `api` and the path has at least three components (the file      *)
(* lies below the package directory), however many follow; otherwise, and   *)
(* for a file outside the source directory, nothing is inferred.            *)
C10_PackageDirectory ==
    (InferDone /\ workspaceFolder.found) =>
        ret = IF call.inside /\ call.rel[1] = "api" /\ Len(call.rel) >= 3
              THEN [kind |-> "string", value |-> call.rel[2]]
              ELSE Null

\* A file four components deep below api/.
C10_Witness ==
    /\ InferDone /\ workspaceFolder.found /\ srcPath = "app/"
    /\ call.rel = <<"api", "pkg", "pkg", "x.js">>
    /\ ret = [kind |-> "string", value |-> "pkg"]

-----------------------------------------------------------------------------
(* Specification SpecBackResolve: matchChainedServiceCall on a document.   *)

\* A line with the variable it assigns a service to (`lhs`) and the service
\* name assigned (`literal`); both empty when it assigns none.
AssignLine(text, lhs, literal) == [text |-> text, lhs |-> lhs, literal |-> literal]

LinesAbove ==
    {AssignLine("const svc = strapi.service('api::a.a');", "svc", "api::a.a"),
     AssignLine("  let svc=strapi.service(\"api::b.b\")", "svc", "api::b.b"),
     AssignLine("svc  =  strapi.service('api::c.c');", "svc", "api::c.c"),
     AssignLine("var repo = strapi.service('api::a.a');", "repo", "api::a.a"),
     AssignLine("  repo = strapi.service('api::b.b');", "repo", "api::b.b"),
     AssignLine("const svc = strapi.query('api::a.a');", "", ""),
     AssignLine("svc = null;", "", ""),
     AssignLine("", "", "")}

LinesBelow ==
    {AssignLine("svc = strapi.service('api::d.d');", "svc", "api::d.d"),
     AssignLine("}", "", "")}

\* A line with a member access `<var>.find`: the variable, the range of the
\* word `find`, and what the line itself assigns.
UseLine(text, var, start, lhs, literal) ==
    [text |-> text, var |-> var, start |-> start, lhs |-> lhs, literal |-> literal]

UseLines ==
    {UseLine("  return svc.find(id);", "svc", 13, "", ""),
     UseLine("await svc ?.find(id)", "svc", 12, "", ""),
     UseLine("repo .find()", "repo", 6, "", ""),
     UseLine("other.find()", "other", 6, "", ""),
     UseLine("svc = strapi.service('api::e.e'); x = svc.find()", "svc", 42,
             "svc", "api::e.e")}

PrefixesAbove == UNION {[1..n -> LinesAbove] : n \in 0..MaxAbove}

TextsOf(given) == [i \in 1..Len(given) |-> given[i].text]

InitBackResolve ==
    /\ \E above \in PrefixesAbove, use \in UseLines,
          below \in {<<>>} \cup {<<l>> : l \in LinesBelow} :
         \E character \in use.start..(use.start + 4) :
            /\ call = [op |-> "matchChainedServiceCall",
                       position |-> [line |-> Len(above), character |-> character],
                       var |-> use.var,
                       given |-> above \o <<[text |-> use.text, lhs |-> use.lhs,
                                             literal |-> use.literal]>> \o below]
            /\ document = [lines |-> TextsOf(call.given), fsPath |-> "/ws/src/index.js"]
    /\ workspaceFolder = WorkspaceRoot
    /\ srcPath = "src"
    /\ disk = EmptyDisk
    /\ Fresh

CallMatchChainedServiceCall ==
    /\ Idle("matchChainedServiceCall")
    /\ Returns(matchChainedServiceCall(document, call.position), <<>>)
    /\ UNCHANGED <<call, document, workspaceFolder, srcPath, disk, pending>>

NextBackResolve == CallMatchChainedServiceCall

SpecBackResolve == InitBackResolve /\ [][NextBackResolve]_vars

\* The 1-based indices of the lines, from line 0 to the cursor's line, that
\* assign a service to the variable in front of the member.
AssigningLines ==
    {i \in 1..(call.position.line + 1) : call.given[i].lhs = call.var}

(* C7: the service name comes from the assignment (declaration or          *)
(* reassignment) of the variable that is closest to the cursor among the   *)
(* lines from the cursor's line up to line 0, so a later assignment        *)
(* shadows every earlier one; when no such line assigns the variable the   *)
(* result is none and no service-call reference is produced.               *)
C7_ClosestAssignmentWins ==
    (pc = "done" /\ call.op = "matchChainedServiceCall") =>
        ret = IF AssigningLines = {} THEN Null
              ELSE ServiceCall(call.given[Max(AssigningLines)].literal, "find")

\* Two assignments of the variable above the cursor and one below it: the
\* nearer one above is returned.
C7_Witness ==
    /\ pc = "done" /\ call.op = "matchChainedServiceCall"
    /\ call.position.line = 2 /\ Len(call.given) = 4
    /\ AssigningLines = {1, 2}
    /\ call.given[1].literal # call.given[2].literal
    /\ call.given[4].lhs = call.var
    /\ ret = ServiceCall(call.given[2].literal, "find")

-----------------------------------------------------------------------------
(* Specification Spec: provideDefinition requests on a route/service file, *)
(* with the disk changing between and during requests.                     *)

RequestLines ==
    <<"const svc = strapi.service('api::pkg.svc');",
      "strapi.service('api::pkg.svc').find(1); strapi.service(\"api::pkg.svc\").sync(2)",
      "  return svc.find(id);",
      "  { method: 'GET', handler: 'ctrl.find' },",
      "  { handler: \"api::pkg.ctrl.sync\" }",
      "  { 'handler' : 'plugin::pkg.ctrl.find' }",
      "strapi.service('api::::x').find() + strapi.service('api::pkg').find()">>

RequestDocument == [lines |-> RequestLines, fsPath |-> "/ws/src/api/pkg/routes/x.js"]

ServiceFile == "/ws/src/api/pkg/services/svc.js"
ControllerFile == "/ws/src/api/pkg/controllers/ctrl.ts"
PluginControllerFile == "/ws/src/plugins/pkg/controllers/ctrl.js"

RequestFiles ==
    (ServiceFile :> [readable |-> TRUE,
                     text |-> "module.exports = {\n  async find(id) {\n  },\n  sync: async (x) => x,\n};"])
    @@ (ControllerFile :> [readable |-> TRUE, text |-> "export default {\n  find: function (ctx) {\n  },\n}"])
    @@ (PluginControllerFile :> [readable |-> TRUE, text |-> "'find': async function(ctx) {}"])

Init ==
    /\ \E line \in 0..(Len(RequestLines) - 1) :
         \E character \in 0..Len(RequestLines[line + 1]) :
            call = [op |-> "provideDefinition",
                    position |-> [line |-> line, character |-> character],
                    files |-> RequestFiles]
    /\ document = RequestDocument
    /\ workspaceFolder \in {WorkspaceRoot, NoFolder}
    /\ srcPath = "src"
    /\ \E S \in SUBSET DOMAIN RequestFiles : disk = [p \in S |-> RequestFiles[p]]
    /\ Fresh

\* The lookup decided r: the request goes on to read the target file, or
\* returns.
LookupEnds(r) ==
    IF r.read
    THEN /\ pending' = [kind |-> "target", filePath |-> r.filePath, name |-> r.name]
         /\ pc' = "checked"
         /\ UNCHANGED <<ret, shown, log>>
    ELSE /\ ReturnsResult(r)
         /\ pending' = Null

\* provideDefinition from its start to the existence check of the target.
ProvideDefinitionLookup ==
    /\ Idle("provideDefinition")
    /\ LookupEnds(provideDefinitionLookup(document, call.position, workspaceFolder,
                                          srcPath, disk))
    /\ UNCHANGED <<call, document, workspaceFolder, srcPath, disk>>

\* Another process removes the target file, or makes it unreadable, after
\* provideDefinition has seen it exist and before it is read.
DiskRace ==
    /\ pc = "checked"
    /\ ExistsSync(disk, pending.filePath)
    /\ disk[pending.filePath].readable
    /\ \/ disk' = [q \in DOMAIN disk \ {pending.filePath} |-> disk[q]]
       \/ disk' = [disk EXCEPT ![pending.filePath].readable = FALSE]
    /\ UNCHANGED <<pc, call, document, workspaceFolder, srcPath, ret, shown, log, pending>>

\* provideDefinition from the call of findMethodDefinition to its return.
ProvideDefinitionRead ==
    /\ pc = "checked"
    /\ call.op = "provideDefinition"
    /\ ReturnsResult(findMethodDefinition(disk, pending.filePath, pending.name))
    /\ UNCHANGED <<call, document, workspaceFolder, srcPath, disk, pending>>

Next ==
    \/ ProvideDefinitionLookup
    \/ DiskRace
    \/ ProvideDefinitionRead
    \/ CallAgain
    \/ DiskChange

Spec == Init /\ [][Next]_vars

\* The reference at the cursor and the path resolved for it.
Target == TargetAt(document, call.position, workspaceFolder, srcPath, disk)

\* The request is over and ended before findMethodDefinition was called.
EndedAtLookup == pc = "done" /\ call.op = "provideDefinition" /\ pending = Null

FileNotFound(path) ==
    /\ Len(shown) = 1
    /\ shown[1].level = "warning"
    /\ Includes(shown[1].text, "file not found")
    /\ path # NoPath
    /\ EndsWith(shown[1].text, path)

\* The request showed one 'file not found' warning naming the path of
\* target t and returned no location.
DiagnosedMissing(t) == ret = Null /\ FileNotFound(t.path)

\* Target t has no path or its file is not on disk.
Unavailable(t) == t # Null /\ (t.path = NoPath \/ ~ExistsSync(disk, t.path))

\* C2 as stated: an unresolvable path and a missing file both end with a
\* 'file not found' diagnostic naming the attempted path.
C2_AlwaysDiagnosed ==
    EndedAtLookup => (LET Diagnosed(t) == Unavailable(t) => DiagnosedMissing(t)
                      IN  Diagnosed(Target))

\* What the request did for target t when it ended before reading a file.
EndedFor(t) ==
    t # Null =>
        /\ ret = Null
        /\ t.path = NoPath => shown = <<>>
        /\ t.path # NoPath => (~ExistsSync(disk, t.path) /\ FileNotFound(t.path))

(* C2 (amended): when a reference is found at the cursor and the path      *)
(* resolved for it does not exist on disk, the request returns no location *)
(* and shows one 'file not found' warning naming that path; when no path   *)
(* can be resolved for it (no workspace root, empty service path) the      *)
(* request returns no location and shows nothing.                          *)
C2_MissingFileDiagnosed == EndedAtLookup => EndedFor(Target)

\* A handler reference whose controller file is missing: the warning names
\* the controllers path with the fallback extension.
C2_Witness ==
    /\ EndedAtLookup
    /\ ret = Null
    /\ shown = <<Message("warning",
                   "Controller file not found: /ws/src/api/pkg/controllers/ctrl.js")>>
    /\ (LET IsController(t) == t # Null /\ t.kind = "Controller"
        IN  IsController(Target))

(* C12: every provideDefinition request ends with a location or with null, *)
(* never with a fault; it shows at most one message, and none with a        *)
(* location; a target file that is missing or unreadable when it is read    *)
(* (removed or locked after the existence check) ends with null and one     *)
(* error message.                                                           *)
C12_FailuresRecovered ==
    (pc = "done" /\ call.op = "provideDefinition") =>
        /\ ret.kind \in {"null", "location"}
        /\ Len(shown) <= 1
        /\ ret.kind = "location" => shown = <<>>
        /\ (pending # Null /\ ReadFails(disk, pending.filePath)) =>
              /\ ret = Null
              /\ Len(shown) = 1
              /\ shown[1].level = "error"

\* The target file was removed between the existence check and the read.
C12_Witness ==
    /\ pc = "done" /\ call.op = "provideDefinition"
    /\ pending # Null
    /\ ~ExistsSync(disk, pending.filePath)
    /\ ret = Null
    /\ shown = <<Message("error", "Error reading service file: "
                   \o "ENOENT: no such file or directory, open '"
                   \o pending.filePath \o "'")>>

-----------------------------------------------------------------------------
(* Specification SpecRepeat: the requests of Spec repeated, the files      *)
(* changing between requests only and never while one is served.           *)

NextRepeat ==
    \/ ProvideDefinitionLookup
    \/ ProvideDefinitionRead
    \/ CallAgain
    \/ DiskChange

SpecRepeat == Init /\ [][NextRepeat]_vars

-----------------------------------------------------------------------------
(* Specification SpecReference: provideDefinition requests on a routes     *)
(* file of package pkg, one line above the cursor's line at most, for      *)
(* every kind of reference the cursor's line can hold.                     *)

InitReference ==
    LET Line(prefix, word, suffix, kind, subject) ==
            [text |-> prefix \o word \o suffix, kind |-> kind, subject |-> subject,
             start |-> Len(prefix), end |-> Len(prefix) + Len(word)]
        ServiceLines ==
            {Line("x = strapi.service('" \o name \o "').", "find", "(1)", "service", name) :
                name \in {"api::pkg.svc", "api::pkg", "api::.svc", "api::pkg.", "api::."}}
        HandlerLines ==
            {Line("  { handler: '", value, "' },", "handler", value) :
                value \in {"ctrl.find", "api::pkg.ctrl.find", "plugin::pkg.ctrl.find"}}
        VariableLines ==
            {Line("await strapi.service(serviceName).", "find", "(1);", "variable",
                  "serviceName")}
        ChainedLines ==
            {Line("  return " \o v \o ".", "find", "(1);", "chained", v) :
                v \in {"ctrl", "svc", "$", "s$"}}
        Above ==
            {AssignLine("const ctrl = strapi.service('api::pkg.svc');", "ctrl", "api::pkg.svc"),
             AssignLine("const serviceName = 'api::pkg.svc';", "serviceName", ""),
             AssignLine("mysvc = strapi.service('api::a.a');", "mysvc", "api::a.a"),
             AssignLine("svc = strapi.service('api::a.a');", "svc", "api::a.a"),
             AssignLine("var svc2 = strapi.service('api::a.a');", "svc2", "api::a.a"),
             AssignLine("let $ = strapi.service('api::a.a');", "$", "api::a.a"),
             AssignLine("const s$ = strapi.service('api::a.a');", "s$", "api::a.a")}
    IN  /\ \E above \in {<<>>} \cup {<<l>> : l \in Above},
              at \in ServiceLines \cup HandlerLines \cup VariableLines \cup ChainedLines :
             \E character \in 0..Len(at.text) :
                /\ call = [op |-> "provideDefinition",
                           position |-> [line |-> Len(above), character |-> character],
                           files |-> RequestFiles, above |-> above, at |-> at]
                /\ document = [lines |-> TextsOf(above) \o <<at.text>>,
                               fsPath |-> "/ws/src/api/pkg/routes/x.js"]
        /\ workspaceFolder = WorkspaceRoot
        /\ srcPath = "src"
        /\ disk \in {EmptyDisk, RequestFiles}
        /\ Fresh

NextReference == ProvideDefinitionLookup \/ ProvideDefinitionRead

SpecReference == InitReference /\ [][NextReference]_vars

\* The request looked the reference up and its cursor is on the word (the
\* member, or the handler value) of a line of kind `kind`.
LookedUpOn(kind) ==
    /\ pc \in {"checked", "done"}
    /\ call.op = "provideDefinition"
    /\ call.at.kind = kind
    /\ call.position.character >= call.at.start
    /\ call.position.character <= call.at.end

\* No path was produced: the request ended without reading or naming a file.
NoPathProduced == pc = "done" /\ pending = Null /\ ret = Null /\ shown = <<>>

\* The request went for member `name` of the file `found` when it is on
\* disk, and warned that `missing` was not found otherwise.
WentFor(kindName, found, missing, name) ==
    IF found \in DOMAIN disk
    THEN pending = [kind |-> "target", filePath |-> found, name |-> name]
    ELSE /\ pc = "done" /\ pending = Null /\ ret = Null
         /\ shown = <<Message("warning", kindName \o " file not found: " \o missing)>>

\* The dotted segments of the service name, after `api::`, by construction.
EmptySegmentNames == {"api::.svc", "api::pkg.", "api::."}

(* C11: a matched service name with an empty segment after `api::` is not  *)
(* resolved: no path is produced for it, and a fully segmented name is     *)
(* resolved to its service file.                                           *)
C11_NoEmptySegment ==
    LookedUpOn("service") =>
        /\ call.at.subject \in EmptySegmentNames => NoPathProduced
        /\ call.at.subject = "api::pkg.svc" =>
               WentFor("Service", ServiceFile, ServiceFile, "find")


\* The request went for the file `path` as a `kindName` file, or ended in
\* silence when there is no path.
OutcomeOf(kindName, path, name) ==
    IF path = NoPath THEN NoPathProduced ELSE WentFor(kindName, path, path, name)

DecidedBy(serviceCallMatch, controllerHandlerMatch) ==
    IF serviceCallMatch # Null
    THEN OutcomeOf("Service",
                   resolveServiceFilePath(disk, workspaceFolder, srcPath,
                                          serviceCallMatch.serviceName),
                   serviceCallMatch.methodName)
    ELSE IF controllerHandlerMatch # Null
    THEN OutcomeOf("Controller",
                   resolveControllerFilePath(disk, workspaceFolder, srcPath,
                       controllerHandlerMatch.namespace,
                       controllerHandlerMatch.apiName,
                       controllerHandlerMatch.controllerName),
                   controllerHandlerMatch.actionName)
    ELSE NoPathProduced

(* C13: when the cursor is on a service call, inline or chained, the request *)
(* is decided by the service path alone: it goes for the service file, warns *)
(* that the service file is missing, or ends in silence; only when there is  *)
(* no service call is it decided by the controller handler at the cursor.    *)
C13_ServiceFormFirst ==
    (pc \in {"checked", "done"} /\ call.op = "provideDefinition") =>
        DecidedBy(findServiceCallAtPosition(document, call.position),
                  findControllerHandlerAtPosition(document, call.position,
                                                  workspaceFolder, srcPath))

\* The cursor is on `find` of handler: 'ctrl.find', which is both a handler
\* and a call chained on the variable ctrl assigned a service on the line
\* above; the service file is missing and the controller file is not tried.
C13_Witness ==
    /\ pc = "done" /\ call.op = "provideDefinition"
    /\ call.at.kind = "handler" /\ call.at.subject = "ctrl.find"
    /\ Len(call.above) = 1 /\ call.above[1].lhs = "ctrl"
    /\ call.position.character = call.at.start + Len("ctrl.") + 1
    /\ findControllerHandlerAtPosition(document, call.position,
                                       workspaceFolder, srcPath) # Null
    /\ ret = Null
    /\ shown = <<Message("warning", "Service file not found: " \o ServiceFile)>>


\* The line above assigns `lhs`.
Assigned(lhs) == Len(call.above) = 1 /\ call.above[1].lhs = lhs

\* The three call patterns of the README, with the cursor on the method.
StandardCall == call.at.kind = "service" /\ call.at.subject = "api::pkg.svc"
ChainedCall == call.at.kind = "chained" /\ call.at.subject = "ctrl" /\ Assigned("ctrl")
WithVariables == call.at.kind = "variable" /\ Assigned("serviceName")

OnMethod ==
    /\ pc \in {"checked", "done"} /\ call.op = "provideDefinition"
    /\ call.position.character >= call.at.start
    /\ call.position.character <= call.at.end

(* C15: with the cursor on the method of a standard call, of a call chained *)
(* on a variable assigned strapi.service('api::pkg.svc'), or of             *)
(* strapi.service(serviceName) with serviceName assigned 'api::pkg.svc' on  *)
(* the line above, the request goes for the service file of api::pkg.svc.   *)
C15_SupportedPatterns ==
    (OnMethod /\ (StandardCall \/ ChainedCall \/ WithVariables)) =>
        WentFor("Service", ServiceFile, ServiceFile, "find")


\* The service name assigned to the variable of the chained call by the line
\* above, NoName when that line assigns another identifier or there is none.
ServiceAssignedAbove ==
    IF Len(call.above) = 1 /\ call.above[1].lhs = call.at.subject
    THEN call.above[1].literal
    ELSE NoName

(* C16: for a request on the method of a call chained on a variable,       *)
(* findServiceNameForVariable returns the service name assigned to exactly *)
(* that variable by the line above, and no name when the line above        *)
(* assigns another identifier.                                             *)
C16_ExactBinding ==
    (OnMethod /\ call.at.kind = "chained") =>
        findServiceNameForVariable(document.lines, call.position.line, call.at.subject)
            = ServiceAssignedAbove


\* The file the handler value stands for: the controller of the package of
\* the document, or the controller of the plugin.
HandlerFile ==
    IF call.at.subject = "plugin::pkg.ctrl.find" THEN PluginControllerFile
    ELSE ControllerFile

\* The path reported when that file is not on disk.
HandlerFileMissing ==
    IF call.at.subject = "plugin::pkg.ctrl.find" THEN PluginControllerFile
    ELSE "/ws/src/api/pkg/controllers/ctrl.js"

(* C17: with the cursor anywhere within the quoted value of a handler      *)
(* entry, the request goes for action find of the controller the value     *)
(* names, whatever the line above is.                                      *)
C17_HandlerWhateverAbove ==
    (OnMethod /\ call.at.kind = "handler") =>
        WentFor("Controller", HandlerFile, HandlerFileMissing, "find")

=============================================================================
